---- MODULE Spec2Model ----
(***************************************************************************)
(* A model of compressor.py: the batch pipeline that compiles article      *)
(* folders (article.md + images/) into per-article JSON files and four     *)
(* manifests.                                                              *)
(*                                                                         *)
(* Text (folder names, file contents, markdown bodies, data URIs) is a     *)
(* sequence of one-character strings; a few multi-character strings stand  *)
(* for runs of bytes that the program never looks into.                    *)
(***************************************************************************)
EXTENDS Integers, Sequences, FiniteSets, TLC

VARIABLES
    content,      \* the input tree: slot -> directory entry (CONTENT_DIR)
    files,        \* compiled article files under COMPRESSED_DIR/<category>/
    manifests,    \* the four manifest files under COMPRESSED_DIR
    articles,     \* main()'s list of collected summaries
    todo,         \* the part of main()'s walk still to do
    pc,           \* where main() is
    hist,         \* history of runs, for stating the claims
    image,        \* compress_and_encode_image: the file at image_path
    buffer,       \* compress_and_encode_image: what img.save wrote
    data_uri,     \* compress_and_encode_image: the value returned
    pair,         \* identifier assignment: two (folder name, raw content)
    unique_id     \* identifier assignment: the two identifiers

vars == <<content, files, manifests, articles, todo, pc, hist,
          image, buffer, data_uri, pair, unique_id>>

pipelineVars == <<content, files, manifests, articles, todo, pc, hist>>
imageVars == <<image, buffer, data_uri>>
idVars == <<pair, unique_id>>

(***************************************************************************)
(* Configuration (compressor.py lines 13-17) and the literals of the code. *)
(***************************************************************************)
IMAGE_MAX_WIDTH == 1280
IMAGE_QUALITY == 80
LatestN == 10

(***************************************************************************)
(* Bounds of the model.                                                    *)
(***************************************************************************)
MaxHeight == 50      \* image heights 1..MaxHeight
MaxRuns == 2         \* runs of main() in one behaviour
MaxEdits == 1        \* edits of the content tree between runs
MaxLong == 11        \* longest list of summaries given to generate_manifests

Min(a, b) == IF a < b THEN a ELSE b

\* Python's None, where the code only tests the value's truth.
None == <<>>

(***************************************************************************)
(* Metadata values.  A YAML value is [type, v]: v is a sequence of strings *)
(* (a scalar is a sequence of length one).                                 *)
(***************************************************************************)
Str(s) == [type |-> "str", v |-> <<s>>]
List(q) == [type |-> "list", v |-> q]
Date(s) == [type |-> "date", v |-> <<s>>]
DateTime(s) == [type |-> "datetime", v |-> <<s>>]

\* date.isoformat() / datetime.isoformat(): the native value is named by
\* its ISO text, a datetime gets the time part.
isoformat(obj) ==
    IF obj.type = "datetime" THEN Str(obj.v[1] \o "T00:00:00") ELSE Str(obj.v[1])

\* serialize_date(obj)
serialize_date(obj) ==
    IF obj.type \in {"date", "datetime"} THEN isoformat(obj) ELSE obj

\* Python truthiness of a metadata value: None, "" and [] are false.
Truthy(val) == val.type # "none" /\ val.v # <<>> /\ val.v # <<"">>

\* dict.get(key, default)
Get(d, key, default) == IF key \in DOMAIN d THEN d[key] ELSE default

\* datetime.fromisoformat on the strings of the model: the instant as a
\* number, or 0 where Python raises (ValueError, TypeError).
IsoInstant ==
    [s \in {"2024-01-01", "2024-01-01T00:00:00", "2024-02-01",
            "2024-02-01T00:00:00", "2024-03-01", "2024-03-01T00:00:00"} |->
        CASE s \in {"2024-01-01", "2024-01-01T00:00:00"} -> 1
          [] s \in {"2024-02-01", "2024-02-01T00:00:00"} -> 2
          [] OTHER -> 3]

fromisoformat(val) ==
    IF val.type = "str" /\ Len(val.v) = 1 /\ val.v[1] \in DOMAIN IsoInstant
    THEN IsoInstant[val.v[1]]
    ELSE 0

(***************************************************************************)
(* compress_and_encode_image (lines 25-40).                                *)
(*                                                                         *)
(* An image file is [px, format, mode, width, height, readable]: px names  *)
(* the picture, format and mode are what Image.open reports, readable is   *)
(* FALSE for a file Image.open or the decoder raises on.                   *)
(***************************************************************************)
ImageFormats == {"PNG", "JPEG", "GIF"}
ImageModes == [PNG |-> {"RGB", "RGBA"}, JPEG |-> {"RGB"}, GIF |-> {"P"}]
Widths == {1, 640, 1279, 1280, 1281, 1960, 2560, 3920, 4000}

\* str.lower() on the format names
lower == [PNG |-> "png", JPEG |-> "jpeg", GIF |-> "gif"]

\* The (width, height) pairs of the model for which the binary64 product
\* (IMAGE_MAX_WIDTH / width) * height falls just below the exact quotient
\* (which is an integer there): (1280 / 1960) * 49 = 31.999999999999996.
FloatShort == {<<1960, 49>>, <<3920, 49>>}

\* int((IMAGE_MAX_WIDTH / img.width) * img.height): rounds half up instead
\* of truncating.
ScaledHeightRounded(w, h) ==
    (2 * IMAGE_MAX_WIDTH * h + w) \div (2 * w)

\* int((IMAGE_MAX_WIDTH / img.width) * img.height), line 30: the float
\* product truncated toward zero.
ScaledHeight(w, h) ==
    IF <<w, h>> \in FloatShort
    THEN (IMAGE_MAX_WIDTH * h) \div w - 1
    ELSE (IMAGE_MAX_WIDTH * h) \div w

\* Image.resize(size, LANCZOS): a new image of that size.  An image the
\* library creates has no source file, so its format attribute is None
\* (the empty string here).
resize(img, size) ==
    [img EXCEPT !.format = "", !.width = size[1], !.height = size[2]]

\* Image.resize raises ValueError unless both sides are positive.
ResizeRaises(size) == size[1] < 1 \/ size[2] < 1

\* lines 29-31: img after the conditional resize
Resized(img) ==
    IF img.width > IMAGE_MAX_WIDTH
    THEN resize(img, <<IMAGE_MAX_WIDTH, ScaledHeight(img.width, img.height)>>)
    ELSE img

\* line 33: img_format = img.format or 'JPEG'
ImgFormat(img) == IF img.format = "" THEN "JPEG" ELSE img.format

\* img.save raises OSError for a mode the JPEG encoder cannot write.
SaveRaises(img, img_format) ==
    img_format = "JPEG" /\ img.mode \in {"RGBA", "P"}

\* Whether the try block of lines 27-37 raises (and None is returned).
CompressRaises(img) ==
    \/ ~img.readable
    \/ /\ img.width > IMAGE_MAX_WIDTH
       /\ ResizeRaises(<<IMAGE_MAX_WIDTH, ScaledHeight(img.width, img.height)>>)
    \/ SaveRaises(Resized(img), ImgFormat(Resized(img)))

NoBuffer == [format |-> "", width |-> 0, height |-> 0, quality |-> 0]

\* lines 32-34: what img.save writes into buffer
Saved(img) ==
    IF CompressRaises(img) THEN NoBuffer
    ELSE [format |-> ImgFormat(Resized(img)),
          width |-> Resized(img).width,
          height |-> Resized(img).height,
          quality |-> IMAGE_QUALITY]

\* base64.b64encode(buffer.getvalue()): the bytes are a function of the
\* picture and of what was saved.
b64encode(img, buf) ==
    <<img.px, buf.format, ToString(buf.width), "x", ToString(buf.height),
      "q", ToString(buf.quality)>>

\* compress_and_encode_image(image_path): the data URI, or None
compress_and_encode_image(img) ==
    IF CompressRaises(img) THEN None
    ELSE <<"data:", "image/" \o lower[Saved(img).format], ";base64,">>
            \o b64encode(img, Saved(img))

(***************************************************************************)
(* Text helpers: str.strip, os.path.basename, str.endswith.                *)
(***************************************************************************)
IsSpace(c) == c \in {" ", "\n"}

RECURSIVE lstrip(_)
lstrip(s) == IF s # <<>> /\ IsSpace(Head(s)) THEN lstrip(Tail(s)) ELSE s

RECURSIVE rstrip(_)
rstrip(s) ==
    IF s # <<>> /\ IsSpace(s[Len(s)]) THEN rstrip(SubSeq(s, 1, Len(s) - 1)) ELSE s

strip(s) == rstrip(lstrip(s))

\* the least index i in from..Len(s) with s[i] = c, or 0
RECURSIVE find(_, _, _)
find(s, c, from) ==
    IF from > Len(s) THEN 0
    ELSE IF s[from] = c THEN from ELSE find(s, c, from + 1)

\* os.path.basename(path): what follows the last "/"
RECURSIVE basename(_)
basename(path) ==
    IF find(path, "/", 1) = 0 THEN path
    ELSE basename(SubSeq(path, find(path, "/", 1) + 1, Len(path)))

\* str.lower() on the extensions of the model
LowerExt(c) ==
    CASE c = ".PNG" -> ".png"
      [] c = ".JPG" -> ".jpg"
      [] OTHER -> c

\* img_file.lower().endswith(('.png', '.jpg', '.jpeg', '.gif')), line 86
HasImageExtension(img_file) ==
    /\ img_file # <<>>
    /\ LowerExt(img_file[Len(img_file)]) \in {".png", ".jpg", ".jpeg", ".gif"}

(***************************************************************************)
(* replace_image_paths (lines 42-50).  assets is a set of [name, uri].     *)
(***************************************************************************)
\* assets.get(img_file, img_path)
AssetsGet(assets, img_file, default) ==
    IF \E a \in assets : a.name = img_file
    THEN (CHOOSE a \in assets : a.name = img_file).uri
    ELSE default

\* looks the whole path up, not its filename
replace_match_whole_path(alt, img_path, assets) ==
    <<"!", "[">> \o alt \o <<"]", "(">>
        \o AssetsGet(assets, img_path, img_path) \o <<")">>

\* replace_match(match), lines 44-47: group 1 is alt, group 2 is img_path
replace_match(alt, img_path, assets) ==
    <<"!", "[">> \o alt \o <<"]", "(">>
        \o AssetsGet(assets, basename(img_path), img_path) \o <<")">>

\* The least j >= from with s[j] = "]" and s[j+1] = "(", with no newline in
\* s[from..j-1] ("." does not match a newline); 0 if there is none.
RECURSIVE FindCloseOpen(_, _)
FindCloseOpen(s, from) ==
    IF from + 1 > Len(s) \/ s[from] = "\n" THEN 0
    ELSE IF s[from] = "]" /\ s[from + 1] = "(" THEN from
    ELSE FindCloseOpen(s, from + 1)

\* The least k >= from with s[k] = ")", with no newline in s[from..k-1].
RECURSIVE FindClose(_, _)
FindClose(s, from) ==
    IF from > Len(s) \/ s[from] = "\n" THEN 0
    ELSE IF s[from] = ")" THEN from
    ELSE FindClose(s, from + 1)

\* re.sub(r'!\[(.*?)\]\((.*?)\)', replace_match, content) from index i on:
\* the leftmost match, both groups as short as possible, then on from the
\* end of the match.
RECURSIVE sub(_, _, _)
sub(s, i, assets) ==
    IF i > Len(s) THEN <<>>
    ELSE
      LET j == IF i + 1 <= Len(s) /\ s[i] = "!" /\ s[i + 1] = "["
               THEN FindCloseOpen(s, i + 2) ELSE 0
          k == IF j > 0 THEN FindClose(s, j + 2) ELSE 0
      IN IF k > 0
         THEN replace_match(SubSeq(s, i + 2, j - 1), SubSeq(s, j + 2, k - 1), assets)
                \o sub(s, k + 1, assets)
         ELSE <<s[i]>> \o sub(s, i + 1, assets)

replace_image_paths(body, assets) == sub(body, 1, assets)

(***************************************************************************)
(* frontmatter.loads (lines 62-68).  A file's text is                      *)
(*     ---\n <yaml> \n---\n <body>                                         *)
(* where one string names the whole YAML block; Yaml gives what the block  *)
(* loads as, or that yaml raises on it.                                    *)
(***************************************************************************)
EmptyDict == [k \in {} |-> Str("")]

Yaml ==
    [y \in {"alpha", "beta", "gamma", "notitle", "emptytitle", "nodate",
            "badyaml", "baddate"} |->
        CASE y = "alpha" ->
               [ok |-> TRUE,
                meta |-> [title |-> Str("Alpha"), date |-> Date("2024-01-01"),
                          tags |-> List(<<"x", "y">>), author |-> Str("Ann")]]
          [] y = "beta" ->
               [ok |-> TRUE,
                meta |-> [title |-> Str("Beta"), date |-> Str("2024-03-01"),
                          draft |-> Str("yes")]]
          [] y = "gamma" ->
               [ok |-> TRUE,
                meta |-> [title |-> Str("Gamma"), date |-> DateTime("2024-03-01")]]
          [] y = "notitle" ->
               [ok |-> TRUE, meta |-> [date |-> Date("2024-02-01")]]
          [] y = "emptytitle" ->
               [ok |-> TRUE,
                meta |-> [title |-> Str(""), date |-> Date("2024-02-01")]]
          [] y = "nodate" ->
               [ok |-> TRUE, meta |-> [title |-> Str("Delta")]]
          [] y = "baddate" ->
               [ok |-> TRUE,
                meta |-> [title |-> Str("Eps"), date |-> Str("next week")]]
          [] OTHER -> [ok |-> FALSE, meta |-> EmptyDict]]

\* the number of "-" from index i on
RECURSIVE CountDashes(_, _)
CountDashes(s, i) ==
    IF i <= Len(s) /\ s[i] = "-" THEN 1 + CountDashes(s, i + 1) ELSE 0

\* Whether the stripped text has an opening boundary line (three or more
\* dashes), a YAML block and a closing boundary line.
HasFrontmatter(text) ==
    LET n == CountDashes(text, 1)
        m == CountDashes(text, n + 4)
    IN /\ n >= 3
       /\ Len(text) >= n + 3
       /\ text[n + 1] = "\n"
       /\ text[n + 2] \in DOMAIN Yaml
       /\ text[n + 3] = "\n"
       /\ m >= 3
       /\ (n + 4 + m > Len(text) \/ text[n + 4 + m] = "\n")

\* frontmatter.loads(raw_content): [raises, metadata, content]
frontmatter_loads(raw_content) ==
    LET text == strip(raw_content)
        n == CountDashes(text, 1)
        m == CountDashes(text, n + 4)
    IN IF ~HasFrontmatter(text)
       THEN [raises |-> FALSE, metadata |-> EmptyDict, content |-> text]
       ELSE IF ~Yaml[text[n + 2]].ok
       THEN [raises |-> TRUE, metadata |-> EmptyDict, content |-> <<>>]
       ELSE [raises |-> FALSE,
             metadata |-> Yaml[text[n + 2]].meta,
             content |-> strip(SubSeq(text, n + 4 + m, Len(text)))]

\* the text of an article.md: n dashes open the frontmatter
ArticleText(n, yaml, body) ==
    [i \in 1..n |-> "-"] \o <<"\n", yaml, "\n", "-", "-", "-", "\n">> \o body

(***************************************************************************)
(* process_article (lines 52-115).                                         *)
(*                                                                         *)
(* A directory entry is [kind, has_md, md, images]: kind is "absent",      *)
(* "file" (not a directory) or "dir"; md is the text of article.md;        *)
(* images is the images/ folder, a set of [name, img].                     *)
(***************************************************************************)
\* hashlib.md5(...).hexdigest()[:12].  The digest is taken to be free of
\* collisions: equal identifiers here come from equal hashed strings.
md5_hex12(s) == <<"md5:">> \o s

\* the identifier also depends on the run that assigns it
UniqueIdOfRun(folder_name, raw_content) ==
    md5_hex12(folder_name \o raw_content \o <<ToString(hist.runs)>>)

\* line 79: the MD5 of folder name + raw content
UniqueId(folder_name, raw_content) == md5_hex12(folder_name \o raw_content)

\* tests that the keys are there, not that the values are non-empty
MissingRequiredKeys(metadata) ==
    "title" \notin DOMAIN metadata \/ "date" \notin DOMAIN metadata

\* line 70: not metadata.get('title') or not metadata.get('date')
MissingRequired(metadata) ==
    \/ ~Truthy(Get(metadata, "title", [type |-> "none", v |-> <<>>]))
    \/ ~Truthy(Get(metadata, "date", [type |-> "none", v |-> <<>>]))

\* lines 82-90: the asset map built from images/
BuildAssets(images) ==
    { [name |-> f.name, uri |-> compress_and_encode_image(f.img)] :
        f \in {g \in images : /\ HasImageExtension(g.name)
                              /\ compress_and_encode_image(g.img) # None} }

\* lines 55-72: whether process_article returns None before writing
Skips(dir) ==
    \/ ~dir.has_md
    \/ frontmatter_loads(dir.md).raises
    \/ MissingRequired(frontmatter_loads(dir.md).metadata)

\* line 75: metadata with the dates as strings
Normalized(metadata) == [k \in DOMAIN metadata |-> serialize_date(metadata[k])]

\* lines 96-100: article_data
ArticleData(dir, folder_name) ==
    [id |-> UniqueId(folder_name, dir.md),
     metadata |-> Normalized(frontmatter_loads(dir.md).metadata),
     content_md |-> replace_image_paths(frontmatter_loads(dir.md).content,
                                        BuildAssets(dir.images))]

\* lines 108-115: the summary returned for the manifests
Summary(dir, category, folder_name) ==
    LET metadata == Normalized(frontmatter_loads(dir.md).metadata)
    IN [id |-> UniqueId(folder_name, dir.md),
        category |-> category,
        title |-> metadata["title"],
        date |-> metadata["date"],
        tags |-> Get(metadata, "tags", List(<<>>)),
        author |-> Get(metadata, "author", Str("Unknown"))]

\* lines 101-105: the file compressed/<category>/<unique_id>.json is
\* written whole, replacing a file of that name
WriteArticle(disk, category, data) ==
    {f \in disk : ~(f.category = category /\ f.id = data.id)}
        \cup {[category |-> category, id |-> data.id, data |-> data]}

(***************************************************************************)
(* generate_manifests (lines 117-135).  A manifest file is <<>> while it   *)
(* does not exist and <<list>> once written.                               *)
(***************************************************************************)
NoManifests == [full |-> <<>>, latest |-> <<>>, news |-> <<>>, reviews |-> <<>>]

\* the sort key of line 119
DateKey(x) == fromisoformat(x.date)

\* datetime.fromisoformat raises on some entry's date
SortRaises(list) == \E i \in 1..Len(list) : DateKey(list[i]) = 0

\* puts x before the entries of equal date
RECURSIVE InsertBeforeEqual(_, _)
InsertBeforeEqual(sorted, x) ==
    IF sorted = <<>> THEN <<x>>
    ELSE IF DateKey(Head(sorted)) > DateKey(x)
         THEN <<Head(sorted)>> \o InsertBeforeEqual(Tail(sorted), x)
         ELSE <<x>> \o sorted

\* x put into a list sorted by date descending, after the entries whose
\* date is later or equal
RECURSIVE Insert(_, _)
Insert(sorted, x) ==
    IF sorted = <<>> THEN <<x>>
    ELSE IF DateKey(Head(sorted)) >= DateKey(x)
         THEN <<Head(sorted)>> \o Insert(Tail(sorted), x)
         ELSE <<x>> \o sorted

\* list.sort(key=..., reverse=True), line 119: stable, most recent first
RECURSIVE SortByDateDesc(_, _)
SortByDateDesc(done, list) ==
    IF list = <<>> THEN done
    ELSE SortByDateDesc(Insert(done, Head(list)), Tail(list))

\* the last LatestN entries
LatestTail(list) ==
    SubSeq(list, Len(list) - Min(LatestN, Len(list)) + 1, Len(list))

\* articles[:10], line 127
Latest(list) == SubSeq(list, 1, Min(LatestN, Len(list)))

\* [a for a in articles if a['category'] == category], line 131
OfCategory(list, category) ==
    SelectSeq(list, LAMBDA a : a.category = category)

\* the new full manifest is appended to the one on disk
FullManifestAppended(old, list) ==
    IF old = <<>> THEN <<list>> ELSE <<old[1] \o list>>

\* lines 122-123: the full manifest, written whole
FullManifest(old, list) == <<list>>

(***************************************************************************)
(* The content tree.  Three article folders: news/a, news/a- and           *)
(* reviews/b.  rev tells whether os.listdir returns the two news folders   *)
(* in the other order; the order of an unchanged directory stays.          *)
(***************************************************************************)
FolderA == <<"a">>
FolderADash == <<"a", "-">>
FolderB == <<"b">>
Slots == {<<"news", FolderA>>, <<"news", FolderADash>>, <<"reviews", FolderB>>}

SmallPng ==
    [px |-> "pic", format |-> "PNG", mode |-> "RGBA", width |-> 640,
     height |-> 2, readable |-> TRUE]

BodyWithImage == <<"!", "[", "c", "]", "(", "f", ".png", ")">>
BodyPlain == <<"t">>

Absent == [kind |-> "absent", has_md |-> FALSE, md |-> <<>>, images |-> {}]
PlainFile == [kind |-> "file", has_md |-> FALSE, md |-> <<>>, images |-> {}]
NoMd == [kind |-> "dir", has_md |-> FALSE, md |-> <<>>, images |-> {}]
Article(n, yaml, body, images) ==
    [kind |-> "dir", has_md |-> TRUE, md |-> ArticleText(n, yaml, body),
     images |-> images]

SlotOptions(slot) ==
    CASE slot = <<"news", FolderA>> ->
           {Absent,
            Article(4, "alpha", BodyWithImage, {}),
            Article(3, "emptytitle", BodyPlain, {})}
      [] slot = <<"news", FolderADash>> ->
           {NoMd,
            Article(3, "alpha", BodyWithImage,
                    {[name |-> <<"f", ".png">>, img |-> SmallPng]}),
            Article(3, "nodate", BodyPlain, {})}
      [] OTHER ->
           {Article(3, "notitle", BodyPlain, {}),
            Article(3, "gamma", BodyPlain, {}),
            Article(3, "baddate", BodyPlain, {})}

BothNews(dirs) ==
    /\ dirs[<<"news", FolderA>>].kind # "absent"
    /\ dirs[<<"news", FolderADash>>].kind # "absent"

Trees ==
    { [dirs |-> d, rev |-> r] :
        d \in {t \in [Slots -> UNION {SlotOptions(sl) : sl \in Slots}] :
                 \A sl \in Slots : t[sl] \in SlotOptions(sl)},
        r \in BOOLEAN }

\* os.listdir over the two categories, lines 139-143
Listing(tree) ==
    LET news == IF tree.rev
                THEN <<<<"news", FolderADash>>, <<"news", FolderA>>>>
                ELSE <<<<"news", FolderA>>, <<"news", FolderADash>>>>
    IN SelectSeq(news \o <<<<"reviews", FolderB>>>>,
                 LAMBDA sl : tree.dirs[sl].kind # "absent")

(***************************************************************************)
(* main (lines 137-152), one step at a time.                               *)
(***************************************************************************)
Stopped == pc \in {"idle", "done", "aborted"}

NoRun == [ok |-> FALSE, tree |-> [dirs |-> [sl \in Slots |-> Absent], rev |-> FALSE],
          files |-> {}, manifests |-> NoManifests]

\* The markdown body of the article under study, in its parts:
\* pre ![alt1](path1) mid ![alt2](path2) post
NoParts == [pre |-> <<>>, alt1 |-> <<>>, path1 |-> <<>>, mid |-> <<>>,
            alt2 |-> <<>>, path2 |-> <<>>, post |-> <<>>, yaml |-> ""]

NoHist == [runs |-> 0, edits |-> 0, tree |-> NoRun.tree,
           start |-> [files |-> {}, manifests |-> NoManifests],
           last |-> NoRun, compiled |-> <<>>, given |-> <<>>,
           parts |-> NoParts]

Init ==
    /\ content \in {t \in Trees : t.rev => BothNews(t.dirs)}
    /\ files = {}
    /\ manifests = NoManifests
    /\ articles = <<>>
    /\ todo = <<>>
    /\ pc = "idle"
    /\ hist = [runs |-> 0, edits |-> 0, tree |-> content,
               start |-> [files |-> {}, manifests |-> NoManifests],
               last |-> NoRun, compiled |-> <<>>, given |-> <<>>,
               parts |-> NoParts]
    /\ image = SmallPng
    /\ buffer = NoBuffer
    /\ data_uri = None
    /\ pair = <<>>
    /\ unique_id = <<>>

\* An author changes one folder between two runs: adds, removes, renames
\* or rewrites it.
Edit ==
    /\ Stopped
    /\ hist.edits < MaxEdits
    /\ \E sl \in Slots : \E e \in SlotOptions(sl), r \in BOOLEAN :
          /\ e # content.dirs[sl]
          /\ r => BothNews([content.dirs EXCEPT ![sl] = e])
          /\ (sl[1] # "news" => r = content.rev)
          /\ content' = [dirs |-> [content.dirs EXCEPT ![sl] = e], rev |-> r]
    /\ hist' = [hist EXCEPT !.edits = @ + 1]
    /\ UNCHANGED <<files, manifests, articles, todo, pc>>
    /\ UNCHANGED <<imageVars, idVars>>

\* main() is started: line 138
StartRun ==
    /\ Stopped
    /\ hist.runs < MaxRuns
    /\ articles' = <<>>
    /\ todo' = Listing(content)
    /\ pc' = "walk"
    /\ hist' = [hist EXCEPT
                  !.runs = @ + 1,
                  !.tree = content,
                  !.start = [files |-> files, manifests |-> manifests],
                  !.last = [ok |-> pc = "done", tree |-> hist.tree,
                            files |-> files, manifests |-> manifests],
                  !.compiled = <<>>,
                  !.given = <<>>]
    /\ UNCHANGED <<content, files, manifests>>
    /\ UNCHANGED <<imageVars, idVars>>

\* lines 143-148, one subdir: an entry that is no directory is passed
\* over, process_article skips the folder or compiles it.
Walk ==
    /\ pc = "walk"
    /\ todo # <<>>
    /\ LET category == Head(todo)[1]
           folder_name == Head(todo)[2]
           dir == content.dirs[Head(todo)]
       IN \/ /\ dir.kind # "dir" \/ Skips(dir)
             /\ UNCHANGED <<files, articles, hist>>
          \/ /\ dir.kind = "dir" /\ ~Skips(dir)
             /\ files' = WriteArticle(files, category, ArticleData(dir, folder_name))
             /\ articles' = Append(articles, Summary(dir, category, folder_name))
             /\ hist' = [hist EXCEPT !.compiled =
                            Append(@, [category |-> category,
                                       id |-> UniqueId(folder_name, dir.md)])]
    /\ todo' = Tail(todo)
    /\ UNCHANGED <<content, manifests, pc>>
    /\ UNCHANGED <<imageVars, idVars>>

\* lines 149-152: generate_manifests is called, or nothing was processed
EndWalk ==
    /\ pc = "walk"
    /\ todo = <<>>
    /\ \/ /\ articles # <<>>
          /\ pc' = "generate"
          /\ hist' = [hist EXCEPT !.given = articles]
       \/ /\ articles = <<>>
          /\ pc' = "done"
          /\ UNCHANGED hist
    /\ UNCHANGED <<content, files, manifests, articles, todo>>
    /\ UNCHANGED <<imageVars, idVars>>

\* lines 119-123: the sort in place and the full manifest; a date that
\* fromisoformat cannot parse ends the run before anything is written
WriteFull ==
    /\ pc = "generate"
    /\ \/ /\ SortRaises(articles)
          /\ pc' = "aborted"
          /\ UNCHANGED <<articles, manifests>>
       \/ /\ ~SortRaises(articles)
          /\ articles' = SortByDateDesc(<<>>, articles)
          /\ manifests' = [manifests EXCEPT
                             !.full = FullManifest(@, SortByDateDesc(<<>>, articles))]
          /\ pc' = "latest"
    /\ UNCHANGED <<content, files, todo, hist>>
    /\ UNCHANGED <<imageVars, idVars>>

\* lines 126-127
WriteLatest ==
    /\ pc = "latest"
    /\ manifests' = [manifests EXCEPT !.latest = <<Latest(articles)>>]
    /\ pc' = "news"
    /\ UNCHANGED <<content, files, articles, todo, hist>>
    /\ UNCHANGED <<imageVars, idVars>>

\* lines 130-133, category news
WriteNews ==
    /\ pc = "news"
    /\ manifests' = [manifests EXCEPT !.news = <<OfCategory(articles, "news")>>]
    /\ pc' = "reviews"
    /\ UNCHANGED <<content, files, articles, todo, hist>>
    /\ UNCHANGED <<imageVars, idVars>>

\* lines 130-133, category reviews, and the return to main
WriteReviews ==
    /\ pc = "reviews"
    /\ manifests' = [manifests EXCEPT !.reviews = <<OfCategory(articles, "reviews")>>]
    /\ pc' = "done"
    /\ UNCHANGED <<content, files, articles, todo, hist>>
    /\ UNCHANGED <<imageVars, idVars>>

\* A fatal error (an unwritable output directory, a full disk, the process
\* killed) ends the run where it is; what is written stays.
Abort ==
    /\ pc \in {"walk", "generate", "latest", "news", "reviews"}
    /\ pc' = "aborted"
    /\ UNCHANGED <<content, files, manifests, articles, todo, hist>>
    /\ UNCHANGED <<imageVars, idVars>>

Next ==
    \/ Edit
    \/ StartRun
    \/ Walk
    \/ EndWalk
    \/ WriteFull
    \/ WriteLatest
    \/ WriteNews
    \/ WriteReviews
    \/ Abort

Spec == Init /\ [][Next]_vars

(***************************************************************************)
(* generate_manifests on its own: any list of summaries may be passed.     *)
(***************************************************************************)
EntryDates ==
    {Str("2024-01-01"), Str("2024-01-01T00:00:00"), Str("2024-03-01"),
     Str("next week")}

EntryKinds == {"news", "reviews"} \X EntryDates

\* The list of n summaries whose categories and dates repeat the three of
\* seed; the identifiers differ.
SummaryList(n, seed) ==
    [i \in 1..n |->
        [id |-> md5_hex12(<<ToString(i)>>),
         category |-> seed[(i % 3) + 1][1],
         title |-> Str("T"),
         date |-> seed[(i % 3) + 1][2],
         tags |-> List(<<>>),
         author |-> Str("Unknown")]]

InitManifest ==
    /\ \E n \in 1..MaxLong, seed \in [1..3 -> EntryKinds] :
          articles = SummaryList(n, seed)
    /\ content = NoRun.tree
    /\ files = {}
    /\ manifests = NoManifests
    /\ todo = <<>>
    /\ pc = "generate"
    /\ hist = [NoHist EXCEPT !.given = articles]
    /\ image = SmallPng
    /\ buffer = NoBuffer
    /\ data_uri = None
    /\ pair = <<>>
    /\ unique_id = <<>>

NextManifest == WriteFull \/ WriteLatest \/ WriteNews \/ WriteReviews

SpecManifest == InitManifest /\ [][NextManifest]_vars

(***************************************************************************)
(* compress_and_encode_image on its own.                                   *)
(***************************************************************************)
ImageFiles ==
    { [px |-> "pic", format |-> f, mode |-> m, width |-> w, height |-> h,
       readable |-> r] :
        f \in ImageFormats, m \in {"RGB", "RGBA", "P"}, w \in Widths,
        h \in 1..MaxHeight, r \in BOOLEAN }

InitImage ==
    /\ image \in {i \in ImageFiles : i.mode \in ImageModes[i.format]}
    /\ buffer = NoBuffer
    /\ data_uri = <<"pending">>
    /\ content = NoRun.tree
    /\ files = {}
    /\ manifests = NoManifests
    /\ articles = <<>>
    /\ todo = <<>>
    /\ pc = "idle"
    /\ hist = NoHist
    /\ pair = <<>>
    /\ unique_id = <<>>

\* One call of compress_and_encode_image on the file.
Compress ==
    /\ data_uri = <<"pending">>
    /\ buffer' = Saved(image)
    /\ data_uri' = compress_and_encode_image(image)
    /\ UNCHANGED image
    /\ UNCHANGED <<pipelineVars, idVars>>

SpecImage == InitImage /\ [][Compress]_vars

(***************************************************************************)
(* Identifier assignment on its own: two article folders.                  *)
(***************************************************************************)
FolderNames == {FolderA, FolderADash, FolderB}

ValidTexts ==
    { ArticleText(n, y, BodyPlain) : n \in {3, 4}, y \in {"alpha", "beta", "gamma"} }

InitId ==
    /\ pair \in { <<[folder_name |-> f1, raw_content |-> r1],
                    [folder_name |-> f2, raw_content |-> r2]>> :
                    f1 \in FolderNames, r1 \in ValidTexts,
                    f2 \in FolderNames, r2 \in ValidTexts }
    /\ unique_id = <<>>
    /\ content = NoRun.tree
    /\ files = {}
    /\ manifests = NoManifests
    /\ articles = <<>>
    /\ todo = <<>>
    /\ pc = "idle"
    /\ hist = NoHist
    /\ image = SmallPng
    /\ buffer = NoBuffer
    /\ data_uri = None

\* line 79 for each of the two folders
AssignIds ==
    /\ unique_id = <<>>
    /\ unique_id' = <<UniqueId(pair[1].folder_name, pair[1].raw_content),
                      UniqueId(pair[2].folder_name, pair[2].raw_content)>>
    /\ UNCHANGED pair
    /\ UNCHANGED <<pipelineVars, imageVars>>

SpecId == InitId /\ [][AssignIds]_vars

(***************************************************************************)
(* process_article on its own: one folder news/a whose body holds two      *)
(* image references, with an images/ folder of good and bad files.         *)
(***************************************************************************)
Ref(alt, path) == <<"!", "[">> \o alt \o <<"]", "(">> \o path \o <<")">>

Body(parts) ==
    parts.pre \o Ref(parts.alt1, parts.path1) \o parts.mid
        \o Ref(parts.alt2, parts.path2) \o parts.post

PartsSet ==
    { [pre |-> pre, alt1 |-> alt1, path1 |-> path1, mid |-> mid,
       alt2 |-> <<"c">>, path2 |-> path2, post |-> post, yaml |-> "beta"] :
        pre \in {<<>>, <<"x", " ">>, <<"!", "[", "q">>, <<"(", "z", ")">>},
        alt1 \in {<<>>, <<"a", "]", "b">>},
        path1 \in {<<"f", ".png">>, <<"d", "/", "f", ".png">>, <<"g", ".PNG">>,
                   <<"h", ".webp">>, <<"f", ".png", "/">>, <<"n", ".png">>,
                   <<"!", "[", "a", "]", "(", "f", ".png">>},
        mid \in {<<>>, <<"\n">>, <<"!", "[">>, <<"]", "(">>},
        path2 \in {<<"f", ".png">>, <<"g", ".PNG">>, <<"n", ".png">>, <<>>},
        post \in {<<>>, <<" ", ")", "\n">>} }
    \cup
    { [NoParts EXCEPT !.yaml = y] : y \in {"badyaml", "notitle", "none"} }

Corrupt == [SmallPng EXCEPT !.readable = FALSE]
WideRgba == [SmallPng EXCEPT !.width = 2560, !.height = 100]
WideRgb == [SmallPng EXCEPT !.width = 2560, !.height = 100, !.mode = "RGB"]
SmallJpeg == [SmallPng EXCEPT !.format = "JPEG", !.mode = "RGB"]

ImageDirs ==
    { fs \cup gs \cup hs :
        fs \in {{}} \cup {{[name |-> <<"f", ".png">>, img |-> i]} :
                            i \in {SmallPng, Corrupt, WideRgba, WideRgb}},
        gs \in {{}} \cup {{[name |-> <<"g", ".PNG">>, img |-> i]} :
                            i \in {SmallJpeg, Corrupt}},
        hs \in {{}, {[name |-> <<"h", ".webp">>, img |-> SmallPng]}} }

InitArticle ==
    /\ \E parts \in PartsSet, images \in ImageDirs :
          /\ content =
               [dirs |-> [sl \in Slots |->
                            IF sl = <<"news", FolderA>>
                            THEN IF parts.yaml = "none" THEN PlainFile
                                 ELSE Article(3, parts.yaml, Body(parts), images)
                            ELSE Absent],
                rev |-> FALSE]
          /\ hist = [NoHist EXCEPT !.parts = parts, !.runs = 1]
    /\ files = {}
    /\ manifests = NoManifests
    /\ articles = <<>>
    /\ todo = <<<<"news", FolderA>>>>
    /\ pc = "walk"
    /\ image = SmallPng
    /\ buffer = NoBuffer
    /\ data_uri = None
    /\ pair = <<>>
    /\ unique_id = <<>>

SpecArticle == InitArticle /\ [][Walk]_vars

(***************************************************************************)
(* Claims about generate_manifests, under SpecManifest.                    *)
(***************************************************************************)
\* the entries of list whose date is the instant k, in the order of list
AtInstant(list, k) == SelectSeq(list, LAMBDA x : fromisoformat(x.date) = k)

FullWritten == pc \in {"latest", "news", "reviews", "done"} /\ hist.given # <<>>

\* C3: the full manifest written by generate_manifests holds the entries
\* passed to it, each once, by date descending (most recent first), and
\* entries of equal date keep the order in which main() appended them.
C3_FullManifestStableByDateDesc ==
    FullWritten =>
        /\ Len(manifests.full) = 1
        /\ LET full == manifests.full[1]
           IN /\ Len(full) = Len(hist.given)
              /\ \A i \in 1..(Len(full) - 1) :
                    fromisoformat(full[i].date) >= fromisoformat(full[i + 1].date)
              /\ \A k \in 1..3 : AtInstant(full, k) = AtInstant(hist.given, k)

\* C3 witness: a list with two entries of equal date, neither of them the
\* most recent, has been sorted and written (the order has changed).
C3_Witness ==
    /\ FullWritten
    /\ manifests.full # <<hist.given>>
    /\ \E i, j \in 1..Len(hist.given) :
          /\ i < j
          /\ fromisoformat(hist.given[i].date) = fromisoformat(hist.given[j].date)
          /\ hist.given[i].date # hist.given[j].date
          /\ \E m \in (j + 1)..Len(hist.given) :
                fromisoformat(hist.given[m].date) > fromisoformat(hist.given[j].date)

\* whether part is list[i..] with only the entries of the category kept
RECURSIVE IsSelection(_, _, _, _)
IsSelection(part, list, i, category) ==
    IF i > Len(list) THEN part = <<>>
    ELSE IF list[i].category = category
         THEN part # <<>> /\ Head(part) = list[i]
              /\ IsSelection(Tail(part), list, i + 1, category)
         ELSE IsSelection(part, list, i + 1, category)

\* C4: after generate_manifests the latest manifest is the first
\* min(10, n) entries of the full manifest, and the manifest of each
\* category holds the full manifest's entries of that category, in the
\* full manifest's order.
C4_DerivedManifestsFollowFull ==
    (pc = "done" /\ hist.given # <<>>) =>
        /\ Len(manifests.full) = 1 /\ Len(manifests.latest) = 1
        /\ Len(manifests.news) = 1 /\ Len(manifests.reviews) = 1
        /\ LET full == manifests.full[1]
               latest == manifests.latest[1]
           IN /\ Len(latest) = Min(LatestN, Len(full))
              /\ \A i \in 1..Len(latest) : latest[i] = full[i]
              /\ IsSelection(manifests.news[1], full, 1, "news")
              /\ IsSelection(manifests.reviews[1], full, 1, "reviews")

\* C4 witness: more than ten entries of both categories were written, and
\* the order of the full manifest is not the order given.
C4_Witness ==
    /\ pc = "done"
    /\ Len(manifests.full) = 1
    /\ Len(manifests.full[1]) > LatestN
    /\ manifests.full[1] # hist.given
    /\ manifests.news[1] # <<>>
    /\ manifests.reviews[1] # <<>>
    /\ manifests.full[1][Len(manifests.full[1])].category = "news"

(***************************************************************************)
(* Claims about the identifier, under SpecId.                              *)
(***************************************************************************)
\* C7: the identifier is a function of (folder name, raw content) that
\* separates distinct pairs: two valid articles that differ in folder name
\* or in raw content never get the same identifier.
C7_IdentifierSeparatesArticles ==
    unique_id # <<>> =>
        /\ (pair[1] = pair[2] => unique_id[1] = unique_id[2])
        /\ (pair[1] # pair[2] => unique_id[1] # unique_id[2])

(***************************************************************************)
(* Claims about compress_and_encode_image, under SpecImage.                *)
(***************************************************************************)
Embedded == data_uri # <<"pending">> /\ data_uri # None

\* C9: every embedded image, downscaled or not, is re-encoded in the
\* format of the file, and the MIME type of the data URI is image/<that
\* format, lowercased>.
C9_KeepsOriginalFormat ==
    Embedded =>
        /\ buffer.format = image.format
        /\ data_uri[2] = "image/" \o lower[image.format]

\* round(n / d), Python's: to the nearest integer, a half to the even one
Round(n, d) ==
    LET q == n \div d
        r == n % d
    IN IF 2 * r > d \/ (2 * r = d /\ q % 2 = 1) THEN q + 1 ELSE q

\* C10 as stated: an image wider than the maximum comes out exactly
\* IMAGE_MAX_WIDTH wide and round(M / w * h) high, any other image comes
\* out with its own width and height.
C10_HeightRounded ==
    Embedded =>
        IF image.width > IMAGE_MAX_WIDTH
        THEN /\ buffer.width = IMAGE_MAX_WIDTH
             /\ buffer.height = Round(IMAGE_MAX_WIDTH * image.height, image.width)
        ELSE buffer.width = image.width /\ buffer.height = image.height

\* C10 amended: an image wider than the maximum comes out exactly
\* IMAGE_MAX_WIDTH wide and int((M / w) * h) high: the quotient M * h / w
\* truncated, or one less where M * h / w is an integer and the float
\* product falls short of it; any other image keeps its width and height.
C10_HeightTruncated ==
    Embedded =>
        IF image.width > IMAGE_MAX_WIDTH
        THEN /\ buffer.width = IMAGE_MAX_WIDTH
             /\ \/ buffer.height = (IMAGE_MAX_WIDTH * image.height) \div image.width
                \/ /\ (IMAGE_MAX_WIDTH * image.height) % image.width = 0
                   /\ buffer.height =
                        (IMAGE_MAX_WIDTH * image.height) \div image.width - 1
        ELSE buffer.width = image.width /\ buffer.height = image.height

\* C10 witness: an image wider than the maximum was embedded whose exact
\* height has a fraction of a half or more.
C10_Witness ==
    /\ Embedded
    /\ image.width > IMAGE_MAX_WIDTH
    /\ 2 * ((IMAGE_MAX_WIDTH * image.height) % image.width) >= image.width
    /\ buffer.height > 1

(***************************************************************************)
(* Claims about image references, under SpecArticle.                       *)
(***************************************************************************)
\* the filename portion of a path: its longest suffix without a "/"
FilenameOf(path) ==
    LET starts == {i \in 1..(Len(path) + 1) :
                     /\ \A j \in i..Len(path) : path[j] # "/"
                     /\ (i = 1 \/ path[i - 1] = "/")}
    IN SubSeq(path, CHOOSE i \in starts : TRUE, Len(path))

\* the image file of that name in images/, if it was compressed
CompressedAs(images, name) ==
    {f \in images : /\ f.name = name
                    /\ HasImageExtension(f.name)
                    /\ ~CompressRaises(f.img)}

\* what a reference is to become: the path replaced by the data URI of
\* the file its filename names, or the reference as it is
ExpectedRef(alt, path, images) ==
    IF CompressedAs(images, FilenameOf(path)) # {}
    THEN LET f == CHOOSE g \in CompressedAs(images, FilenameOf(path)) : TRUE
         IN Ref(alt, <<"data:", "image/" \o lower[Saved(f.img).format], ";base64,">>
                        \o b64encode(f.img, Saved(f.img)))
    ELSE Ref(alt, path)

ExpectedBody(parts, images) ==
    strip(parts.pre \o ExpectedRef(parts.alt1, parts.path1, images) \o parts.mid
            \o ExpectedRef(parts.alt2, parts.path2, images) \o parts.post)

Processed == pc = "walk" /\ todo = <<>> /\ hist.parts.yaml = "beta"

\* C8: in the content_md of a compiled article a reference ![alt](path)
\* has its path replaced by a data URI exactly when the filename of path
\* names a file of images/ that was compressed; every other reference,
\* every alt text and the text around are those of the source body; and an
\* image that fails never keeps the article from being compiled.
C8_OnlyCompressedImagesAreInlined ==
    Processed =>
        /\ Cardinality(files) = 1
        /\ \A f \in files :
              f.data.content_md =
                 ExpectedBody(hist.parts, content.dirs[<<"news", FolderA>>].images)

\* C8 witness: an article was compiled whose first reference (to a file in
\* a subfolder path) was inlined while its second, to an image that failed
\* to compress, was left as it is.
C8_Witness ==
    /\ Processed
    /\ hist.parts.path1 = <<"d", "/", "f", ".png">>
    /\ hist.parts.path2 = <<"g", ".PNG">>
    /\ \E f \in content.dirs[<<"news", FolderA>>].images :
          f.name = <<"f", ".png">> /\ ~CompressRaises(f.img)
    /\ \E g \in content.dirs[<<"news", FolderA>>].images :
          g.name = <<"g", ".PNG">> /\ CompressRaises(g.img)
    /\ \E f \in files :
          /\ f.data.content_md # strip(Body(hist.parts))
          /\ Len(f.data.content_md) > Len(Body(hist.parts))

(***************************************************************************)
(* Claims about the whole pipeline, under Spec.                            *)
(***************************************************************************)
ManifestNames == {"full", "latest", "news", "reviews"}

\* the folders of the tree the current run walks
RunDir(sl) == hist.tree.dirs[sl]

\* a folder that has an article.md whose frontmatter has a non-empty title
\* and a date
IsValidArticle(dir) ==
    /\ dir.kind = "dir"
    /\ dir.has_md
    /\ LET post == frontmatter_loads(dir.md)
       IN /\ ~post.raises
          /\ "title" \in DOMAIN post.metadata
          /\ post.metadata["title"].v \notin {<<>>, <<"">>}
          /\ "date" \in DOMAIN post.metadata

HasFile(category, id) == \E f \in files : f.category = category /\ f.id = id

Lists(name, category, id) ==
    /\ manifests[name] # <<>>
    /\ \E i \in 1..Len(manifests[name][1]) :
          /\ manifests[name][1][i].category = category
          /\ manifests[name][1][i].id = id

C1_AtEnd ==
    pc = "done" =>
        /\ \A sl \in Slots :
              RunDir(sl).kind = "dir" =>
                 IF IsValidArticle(RunDir(sl))
                 THEN /\ HasFile(sl[1], UniqueId(sl[2], RunDir(sl).md))
                      /\ Lists("full", sl[1], UniqueId(sl[2], RunDir(sl).md))
                 ELSE RunDir(sl).has_md =>
                        /\ ~HasFile(sl[1], UniqueId(sl[2], RunDir(sl).md))
                        /\ \A name \in ManifestNames :
                              ~Lists(name, sl[1], UniqueId(sl[2], RunDir(sl).md))
        /\ (\E sl \in Slots : IsValidArticle(RunDir(sl))) =>
              Len(manifests.full[1]) =
                 Cardinality({sl \in Slots : IsValidArticle(RunDir(sl))})

C1_Step ==
    (/\ pc = "walk" /\ todo # <<>> /\ todo' = Tail(todo)
     /\ ~IsValidArticle(content.dirs[Head(todo)]))
        => /\ pc' = "walk"
           /\ files' = files
           /\ articles' = articles
           /\ manifests' = manifests

\* C1: a folder without article.md, or whose frontmatter lacks a non-empty
\* title or a date, gets no file written and no entry in any manifest;
\* walking over it never ends the run, and every valid folder of the same
\* run is compiled and listed.
C1_DefectiveFoldersAreSkipped == []C1_AtEnd /\ [][C1_Step]_vars

\* C1 witness: a run ended that walked over a folder with an empty title
\* and a folder without article.md before it compiled a valid one.
C1_Witness ==
    /\ pc = "done"
    /\ \E sl \in Slots : RunDir(sl).kind = "dir" /\ ~RunDir(sl).has_md
    /\ \E sl \in Slots : RunDir(sl).has_md /\ ~IsValidArticle(RunDir(sl))
    /\ IsValidArticle(RunDir(<<"reviews", FolderB>>))
    /\ manifests.full # <<>>
    /\ Len(manifests.full[1]) = 1

\* C2: after any runs, ended or aborted, over any edits of the tree, every
\* entry of every manifest on disk has its compiled file
\* compressed/<category>/<id>.json on disk, and no two entries of the full
\* manifest have the same file.
C2_EveryEntryHasItsOwnFile ==
    /\ \A name \in ManifestNames :
          manifests[name] # <<>> =>
             \A i \in 1..Len(manifests[name][1]) :
                HasFile(manifests[name][1][i].category, manifests[name][1][i].id)
    /\ manifests.full # <<>> =>
          \A i, j \in 1..Len(manifests.full[1]) :
             (/\ manifests.full[1][i].category = manifests.full[1][j].category
              /\ manifests.full[1][i].id = manifests.full[1][j].id) => i = j

\* how often the file (category, id) is named in a list of entries
Times(list, key) ==
    Cardinality({i \in 1..Len(list) :
                   list[i].category = key.category /\ list[i].id = key.id})

\* C5: at the end of main(), if an article was compiled in the run, the
\* four manifests are written and hold the articles compiled in this run
\* and nothing else (the full manifest each of them once); if none was,
\* the manifests are as they were before the run.
C5_ManifestsOfThisRunOnly ==
    pc = "done" =>
        IF hist.compiled # <<>>
        THEN /\ \A name \in ManifestNames : manifests[name] # <<>>
             /\ Len(manifests.full[1]) = Len(hist.compiled)
             /\ \A i \in 1..Len(hist.compiled) :
                   Times(manifests.full[1], hist.compiled[i])
                      = Times(hist.compiled, hist.compiled[i])
             /\ \A name \in ManifestNames :
                   \A i \in 1..Len(manifests[name][1]) :
                      Times(hist.compiled, manifests[name][1][i]) > 0
        ELSE manifests = hist.start.manifests

\* C5 witness: a second run that compiled an article has ended, and its
\* full manifest replaced a different one.
C5_Witness ==
    /\ pc = "done"
    /\ hist.compiled # <<>>
    /\ hist.start.manifests.full # <<>>
    /\ hist.start.manifests.full # manifests.full
    /\ Len(hist.start.manifests.full[1]) > Len(manifests.full[1])

\* C6: a run of main() over the tree of the run before it, which ended,
\* leaves the output tree as that run left it: the same article files with
\* the same contents, the same four manifests.
C6_SecondRunChangesNothing ==
    (pc = "done" /\ hist.last.ok /\ hist.last.tree = hist.tree) =>
        /\ files = hist.last.files
        /\ manifests = hist.last.manifests

\* C6 witness: the second of two runs over the same tree of three valid
\* articles, two of them of equal date, has ended.
C6_Witness ==
    /\ pc = "done"
    /\ hist.last.ok
    /\ hist.last.tree = hist.tree
    /\ manifests.full # <<>>
    /\ Len(manifests.full[1]) = 3
    /\ files # {}

====
